---------------------------- MODULE Spec2Model ----------------------------
(***************************************************************************)
(* BDS (Bell-Dawson-Shubin) edge states in two dimensions:                 *)
(* BDS::ComputeEdgeState, BDS::ComputeSlopes and BDS::ComputeConc of       *)
(* src/BDS/hydro_bds_edge_state_2D.cpp on one box of the BoxArray.         *)
(*                                                                         *)
(* amrex::Real is modelled by exact rationals <<n, d>> (d > 0, lowest      *)
(* terms): floating-point round-off is not part of the model.              *)
(***************************************************************************)
EXTENDS Integers, Sequences, FiniteSets, TLC

VARIABLES
    is_conservative,  \* argument of ComputeEdgeState
    s,                \* state, cell centred, with ghost cells
    uadv, vadv,       \* umac, vmac: face velocities, one ghost layer
    force,            \* fq: forcing term, cell centred, one ghost cell
    hx, hy, dt,       \* geom.CellSizeArray() and the time step
    eps,              \* the tolerance of line 15, in the unit of the scalar values
    order,            \* how ParallelFor runs its iterations: "loop", "reverse", "any"
    pc,               \* position of ComputeEdgeState
    abortMsg,         \* the message amrex::Abort was called with
    sint,             \* sint_mf: corner values, nodal, one ghost layer
    slope,            \* slope_mf: <<sx, sy, sxy>> per cell, one ghost cell
    xedge, yedge,     \* the edge states written by ComputeConc
    cur,              \* the cell whose slope iteration is in flight
    ll,               \* limiter sweeps that iteration has completed
    sc, smin, smax,   \* its local arrays (Array1D<Real,1,4>)
    sReads,           \* cells of s read so far by each stage (a record)
    sintReads, slopeReads, uReads, vReads, fReads,  \* indices read so far
    writes,           \* stores made so far to each element of the four arrays
    ownReads,         \* <<c, d>>: the slope iteration of cell c has read slopes(d)
    call,             \* what the caller has called: ComputeEdgeState ("whole"), or
                      \* ComputeConc on given slopes, then on their image
    prev              \* what the previous call of ComputeConc returned

vars == <<is_conservative, s, uadv, vadv, force, hx, hy, dt, eps, order, pc,
          abortMsg, sint, slope, xedge, yedge, cur, ll, sc, smin, smax,
          sReads, sintReads, slopeReads, uReads, vReads, fReads, writes,
          ownReads, call, prev>>

inputs == <<is_conservative, s, uadv, vadv, force, hx, hy, dt, eps, order, call, prev>>

-----------------------------------------------------------------------------
(* Exact rational arithmetic.  Every operation reduces by greatest common  *)
(* divisors before it multiplies, and the comparison never multiplies.     *)

Abs(n) == IF n < 0 THEN -n ELSE n

RECURSIVE GCD(_, _)
GCD(a, b) == IF b = 0 THEN a ELSE GCD(b, a % b)

Norm(n, d) ==
    LET g == GCD(Abs(n), Abs(d))
        sg == IF d < 0 THEN -1 ELSE 1
    IN  <<sg * (n \div g), sg * (d \div g)>>

Rat(n, d) == Norm(n, d)
R(n) == <<n, 1>>
Zero == <<0, 1>>

RNeg(x) == <<-x[1], x[2]>>

RAdd(x, y) ==
    IF x[2] = y[2] THEN Norm(x[1] + y[1], x[2])
    ELSE LET g == GCD(x[2], y[2])
         IN  Norm(x[1] * (y[2] \div g) + y[1] * (x[2] \div g), (x[2] \div g) * y[2])

RSub(x, y) == RAdd(x, RNeg(y))

RMul(x, y) ==
    IF x[1] = 0 \/ y[1] = 0 THEN Zero
    ELSE LET g1 == GCD(Abs(x[1]), y[2])
             g2 == GCD(Abs(y[1]), x[2])
         IN  <<(x[1] \div g1) * (y[1] \div g2), (x[2] \div g2) * (y[2] \div g1)>>

RInv(x) == IF x[1] < 0 THEN <<-x[2], -x[1]>> ELSE <<x[2], x[1]>>

RDiv(x, y) == RMul(x, RInv(y))

\* a/b < c/d for b, d > 0, by integer parts and then the remainders' reciprocals
RECURSIVE FracLess(_, _, _, _)
FracLess(a, b, c, d) ==
    LET qa == a \div b
        qc == c \div d
        ra == a % b
        rc == c % d
    IN  IF qa # qc THEN qa < qc
        ELSE IF rc = 0 THEN FALSE
        ELSE IF ra = 0 THEN TRUE
        ELSE FracLess(d, rc, b, ra)

RLt(x, y) == FracLess(x[1], x[2], y[1], y[2])
RGt(x, y) == RLt(y, x)
RLe(x, y) == ~RLt(y, x)

RMin(x, y) == IF RLt(y, x) THEN y ELSE x
RMax(x, y) == IF RLt(x, y) THEN y ELSE x
RMin4(a, b, c, d) == RMin(RMin(a, b), RMin(c, d))
RMax4(a, b, c, d) == RMax(RMax(a, b), RMax(c, d))
RAbs(x) == <<Abs(x[1]), x[2]>>

Half == Rat(1, 2)
Quarter == Rat(1, 4)

-----------------------------------------------------------------------------
(* The index spaces of one box.  The valid cells are 0..Nx-1 x 0..Ny-1.    *)

Nx == 1
Ny == 1

SintNGrow == 1     \* MultiFab sint_mf(..., 1, 1)
SlopeNGrow == 1    \* MultiFab slope_mf(ba, dmap, 3, 1)
CornerGrow == 1    \* the corner loop runs over mfi.growntilebox(1) of sint_mf
SlopeGrow == 1     \* the slope loop runs over mfi.growntilebox(1) of s_mf

Box(ilo, ihi, jlo, jhi) == (ilo .. ihi) \X (jlo .. jhi)

Cells(g) == Box(-g, Nx - 1 + g, -g, Ny - 1 + g)
Nodes(g) == Box(-g, Nx + g, -g, Ny + g)
XFaces(g) == Box(-g, Nx + g, -g, Ny - 1 + g)
YFaces(g) == Box(-g, Nx - 1 + g, -g, Ny + g)

\* the corner loop run over the valid nodes only
CornerBoxValid == Nodes(0)

CornerBox == Nodes(CornerGrow)
SlopeBox == Cells(SlopeGrow)

\* the ghost width the corner stencil (i-2 .. i+1) reaches from CornerBox
SReach == CornerGrow + 2

NoVal == <<>>
NoCell == <<>>


-----------------------------------------------------------------------------
(* ComputeSlopes, first loop: bicubic interpolation to corner points.      *)
(* (i,j) refers to the lower corner of cell (i,j).                         *)

\* the stencil reaching one cell further up
CornerStencilShifted(i, j) == Box(i - 2, i + 2, j - 2, j + 2)

CornerStencil(i, j) == Box(i - 2, i + 1, j - 2, j + 1)

Sum4(a, b, c, d) == RAdd(RAdd(a, b), RAdd(c, d))

\* the interpolation that starts from the corner value on its left once
\* that one is stored
SintValInPlace(i, j) ==
    LET nears == Sum4(s[i-1, j-1], s[i, j-1], s[i-1, j], s[i, j])
    IN  IF <<i - 1, j>> \in DOMAIN sint /\ sint[i - 1, j] # NoVal
        THEN RMul(Half, RAdd(sint[i - 1, j], RMul(Quarter, nears)))
        ELSE RMul(Quarter, nears)

SintVal(i, j) ==
    LET corners == Sum4(s[i-2, j-2], s[i-2, j+1], s[i+1, j-2], s[i+1, j+1])
        edges == RAdd(Sum4(s[i-2, j-1], s[i-2, j], s[i-1, j-2], s[i, j-2]),
                      Sum4(s[i-1, j+1], s[i, j+1], s[i+1, j-1], s[i+1, j]))
        nears == Sum4(s[i-1, j-1], s[i, j-1], s[i-1, j], s[i, j])
    IN  RDiv(RAdd(RSub(corners, RMul(R(7), edges)), RMul(R(49), nears)), R(144))

-----------------------------------------------------------------------------
(* ComputeSlopes, second loop: slopes from the corner values, then the     *)
(* limiter.                                                                *)

\* the limiter switched off
LimitSlopesOff == FALSE

\* constexpr bool limit_slopes = true
limit_slopes == TRUE

SlopeSintStencil(i, j) == {<<i, j>>, <<i+1, j>>, <<i, j+1>>, <<i+1, j+1>>}
SlopeSStencil(i, j) == Box(i - 1, i + 1, j - 1, j + 1)

\* the estimates with the two mesh widths exchanged
UnlimitedSlopeSwappedH(i, j) ==
    LET pp == sint[i+1, j+1]
        pm == sint[i+1, j]
        mp == sint[i, j+1]
        mm == sint[i, j]
    IN  << RDiv(RMul(Half, RSub(RSub(RAdd(pp, pm), mp), mm)), hy),
           RDiv(RMul(Half, RSub(RAdd(RSub(pp, pm), mp), mm)), hx),
           RDiv(RAdd(RSub(RSub(pp, pm), mp), mm), RMul(hx, hy)) >>

\* initial estimates of slopes from unlimited corner points: <<sx, sy, sxy>>
UnlimitedSlope(i, j) ==
    LET pp == sint[i+1, j+1]
        pm == sint[i+1, j]
        mp == sint[i, j+1]
        mm == sint[i, j]
    IN  << RDiv(RMul(Half, RSub(RSub(RAdd(pp, pm), mp), mm)), hx),
           RDiv(RMul(Half, RSub(RAdd(RSub(pp, pm), mp), mm)), hy),
           RDiv(RAdd(RSub(RSub(pp, pm), mp), mm), RMul(hx, hy)) >>

\* the four corner values of the bilinear profile: sc(1) = --, sc(2) = -+,
\* sc(3) = +-, sc(4) = ++
CornersOf(sij, sl) ==
    LET xs == RMul(hx, sl[1])
        ys == RMul(hy, sl[2])
        cr == RMul(Quarter, RMul(RMul(hx, hy), sl[3]))
    IN  << RAdd(RSub(sij, RMul(Half, RAdd(xs, ys))), cr),
           RSub(RSub(sij, RMul(Half, RSub(xs, ys))), cr),
           RSub(RAdd(sij, RMul(Half, RSub(xs, ys))), cr),
           RAdd(RAdd(sij, RMul(Half, RAdd(xs, ys))), cr) >>

\* the four cell centres sharing corner k of cell (i,j)
Quartet(i, j, k) ==
    LET di == IF k \in {3, 4} THEN 1 ELSE -1
        dj == IF k \in {2, 4} THEN 1 ELSE -1
    IN  <<s[i, j], s[i + di, j], s[i, j + dj], s[i + di, j + dj]>>

SminOf(i, j) ==
    [k \in 1..4 |-> LET q == Quartet(i, j, k) IN RMin4(q[1], q[2], q[3], q[4])]

SmaxOf(i, j) ==
    [k \in 1..4 |-> LET q == Quartet(i, j, k) IN RMax4(q[1], q[2], q[3], q[4])]

\* enforce max/min bounds: sc(mm) = max(min(sc(mm), smax(mm)), smin(mm))
Clamp(x, lo, hi) == RMax(RMin(x, hi), lo)

ClampAll(scv, lo, hi) == [k \in 1..4 |-> Clamp(scv[k], lo[k], hi[k])]

SumSc(scv) == Sum4(scv[4], scv[3], scv[2], scv[1])

\* sumdif = (sumloc - s(i,j,k))*4.0 with sumloc = 0.25*(sc(4)+sc(3)+sc(2)+sc(1))
Sumdif(scv, sij) == RMul(RSub(RMul(Quarter, SumSc(scv)), sij), R(4))

\* std::copysign(1.0, sumdif); an exact zero residual is +0.0
Sgndif(sumdif) == IF sumdif[1] < 0 THEN -1 ELSE 1

Diff(scv, sij, sgndif) == [k \in 1..4 |-> RMul(RSub(scv[k], sij), R(sgndif))]

Active(d) == RGt(d, eps)

Kdp(diff) == Cardinality({k \in 1..4 : Active(diff[k])})

\* the two branches exchanged
RedmaxSwapped(scv, lo, hi, sgndif, mm) ==
    IF sgndif > 0 THEN RSub(hi[mm], scv[mm]) ELSE RSub(scv[mm], lo[mm])

Redmax(scv, lo, hi, sgndif, mm) ==
    IF sgndif > 0 THEN RSub(scv[mm], lo[mm]) ELSE RSub(hi[mm], scv[mm])

\* the pass that moves every active corner all the way to its bound
CornerStepToBound(st, mm, diff, sgndif, lo, hi) ==
    LET redmax == Redmax(st.sc, lo, hi, sgndif, mm)
        redfac == IF Active(diff[mm]) THEN redmax ELSE RMin(Zero, redmax)
    IN  [ sc |-> [st.sc EXCEPT ![mm] = RSub(st.sc[mm], RMul(redfac, R(sgndif)))],
          sumdif |-> RSub(st.sumdif, RMul(redfac, R(sgndif))),
          kdp |-> IF Active(diff[mm]) THEN st.kdp - 1 ELSE st.kdp ]

\* the pass with div taken from the count at sweep entry (kdp never decremented)
CornerStepFixedDiv(st, mm, diff, sgndif, lo, hi) ==
    LET div == IF st.kdp < 1 THEN 1 ELSE st.kdp
        redfac0 == IF Active(diff[mm])
                   THEN RDiv(RMul(st.sumdif, R(sgndif)), R(div))
                   ELSE Zero
        redmax == Redmax(st.sc, lo, hi, sgndif, mm)
        redfac == RMin(redfac0, redmax)
    IN  [ sc |-> [st.sc EXCEPT ![mm] = RSub(st.sc[mm], RMul(redfac, R(sgndif)))],
          sumdif |-> RSub(st.sumdif, RMul(redfac, R(sgndif))),
          kdp |-> st.kdp ]

\* one pass of the body of the loop over mm; st = [sc, sumdif, kdp]
CornerStep(st, mm, diff, sgndif, lo, hi) ==
    LET div == IF st.kdp < 1 THEN 1 ELSE st.kdp
        redfac0 == IF Active(diff[mm])
                   THEN RDiv(RMul(st.sumdif, R(sgndif)), R(div))
                   ELSE Zero
        redmax == Redmax(st.sc, lo, hi, sgndif, mm)
        redfac == RMin(redfac0, redmax)
    IN  [ sc |-> [st.sc EXCEPT ![mm] = RSub(st.sc[mm], RMul(redfac, R(sgndif)))],
          sumdif |-> RSub(st.sumdif, RMul(redfac, R(sgndif))),
          kdp |-> IF Active(diff[mm]) THEN st.kdp - 1 ELSE st.kdp ]

\* one sweep of the iterative loop (one value of ll)
SweepState(scv, sij, lo, hi) ==
    LET sumdif == Sumdif(scv, sij)
        sgndif == Sgndif(sumdif)
        diff == Diff(scv, sij, sgndif)
        st0 == [sc |-> scv, sumdif |-> sumdif, kdp |-> Kdp(diff)]
        st1 == CornerStep(st0, 1, diff, sgndif, lo, hi)
        st2 == CornerStep(st1, 2, diff, sgndif, lo, hi)
        st3 == CornerStep(st2, 3, diff, sgndif, lo, hi)
    IN  CornerStep(st3, 4, diff, sgndif, lo, hi)

Sweep(scv, sij, lo, hi) == SweepState(scv, sij, lo, hi).sc

\* the limiter stopped one sweep short
TwoSweeps == 3 - 1

\* for(int ll = 1; ll <= 3; ++ll)
NSweeps == 3

\* the final slopes whose cross term is divided by hx alone
FinalSlopeCrossOverHx(scv) ==
    << RDiv(RMul(Half, RSub(RSub(RAdd(scv[4], scv[3]), scv[1]), scv[2])), hx),
       RDiv(RMul(Half, RSub(RSub(RAdd(scv[4], scv[2]), scv[1]), scv[3])), hy),
       RDiv(RSub(RSub(RAdd(scv[1], scv[4]), scv[2]), scv[3]), hx) >>

\* final slopes <<sx, sy, sxy>> from the adjusted corners
FinalSlope(scv) ==
    << RDiv(RMul(Half, RSub(RSub(RAdd(scv[4], scv[3]), scv[1]), scv[2])), hx),
       RDiv(RMul(Half, RSub(RSub(RAdd(scv[4], scv[2]), scv[1]), scv[3])), hy),
       RDiv(RSub(RSub(RAdd(scv[1], scv[4]), scv[2]), scv[3]), RMul(hx, hy)) >>

-----------------------------------------------------------------------------
(* ComputeConc: the edge states.                                           *)

RPos(x) == x[1] > 0

Sum3(a, b, c) == RAdd(RAdd(a, b), c)

\* the donor of a face at rest taken on the low side
XDonorNonNegative(i, j) ==
    IF uadv[i, j][1] >= 0 THEN [iup |-> i - 1, isign |-> 1]
                          ELSE [iup |-> i, isign |-> -1]

\* the donor taken two cells upwind
XDonorFar(i, j) ==
    IF RPos(uadv[i, j]) THEN [iup |-> i - 2, isign |-> 1]
                        ELSE [iup |-> i, isign |-> -1]

\* donor cell of an x-face: if (uadv(i,j,k) > 0.0)
XDonor(i, j) ==
    IF RPos(uadv[i, j]) THEN [iup |-> i - 1, isign |-> 1]
                        ELSE [iup |-> i, isign |-> -1]

\* transverse upwinding of Gamma plus for flux F
XPlusTrans(i, j, iup) ==
    IF RPos(vadv[iup, j+1])
    THEN [jup |-> j, jsign |-> 1, u2 |-> uadv[i, j]]
    ELSE [jup |-> j + 1, jsign |-> -1,
          u2 |-> IF RPos(RMul(uadv[i, j], uadv[i, j+1])) THEN uadv[i, j+1] ELSE Zero]

\* transverse upwinding of Gamma minus for flux F
XMinusTrans(i, j, iup) ==
    IF RPos(vadv[iup, j])
    THEN [jup |-> j - 1, jsign |-> 1,
          u2 |-> IF RPos(RMul(uadv[i, j], uadv[i, j-1])) THEN uadv[i, j-1] ELSE Zero]
    ELSE [jup |-> j, jsign |-> -1, u2 |-> uadv[i, j]]

\* the trace whose x half-width is hx whatever the side of the donor
GammaXUnsigned(iup, jup, hxs, hys, u1, u2, vv) ==
    LET sl == slope[iup, jup]
        uu12 == RAdd(u1, u2)
        cx == RSub(RMul(hx, Half), RDiv(RMul(uu12, dt), R(3)))
        cy == RSub(RMul(hys, Half), RDiv(RMul(vv, dt), R(3)))
        cxy == RAdd(RSub(RSub(RMul(R(3), RMul(hxs, hys)),
                              RMul(R(2), RMul(RMul(uu12, dt), hys))),
                         RMul(R(2), RMul(RMul(vv, hxs), dt))),
                    RMul(RMul(vv, RAdd(RMul(R(2), u2), u1)), RMul(dt, dt)))
    IN  RAdd(Sum3(s[iup, jup], RMul(cx, sl[1]), RMul(cy, sl[2])),
             RDiv(RMul(cxy, sl[3]), R(12)))

\* s + (hxs/2 - (u1+u2)dt/3) sx + (hys/2 - vv dt/3) sy
\*   + (3 hxs hys - 2(u1+u2) dt hys - 2 vv hxs dt + vv (2 u2 + u1) dt dt) sxy / 12
GammaX(iup, jup, hxs, hys, u1, u2, vv) ==
    LET sl == slope[iup, jup]
        uu12 == RAdd(u1, u2)
        cx == RSub(RMul(hxs, Half), RDiv(RMul(uu12, dt), R(3)))
        cy == RSub(RMul(hys, Half), RDiv(RMul(vv, dt), R(3)))
        cxy == RAdd(RSub(RSub(RMul(R(3), RMul(hxs, hys)),
                              RMul(R(2), RMul(RMul(uu12, dt), hys))),
                         RMul(R(2), RMul(RMul(vv, hxs), dt))),
                    RMul(RMul(vv, RAdd(RMul(R(2), u2), u1)), RMul(dt, dt)))
    IN  RAdd(Sum3(s[iup, jup], RMul(cx, sl[1]), RMul(cy, sl[2])),
             RDiv(RMul(cxy, sl[3]), R(12)))

XGamp(i, j) ==
    LET d == XDonor(i, j)
        t == XPlusTrans(i, j, d.iup)
    IN  GammaX(d.iup, t.jup, RMul(hx, R(d.isign)), RMul(hy, R(t.jsign)),
               uadv[i, j], t.u2, vadv[d.iup, j+1])

XGamm(i, j) ==
    LET d == XDonor(i, j)
        t == XMinusTrans(i, j, d.iup)
    IN  GammaX(d.iup, t.jup, RMul(hx, R(d.isign)), RMul(hy, R(t.jsign)),
               uadv[i, j], t.u2, vadv[d.iup, j])

XVdif(i, j) ==
    LET iup == XDonor(i, j).iup
    IN  RDiv(RMul(RMul(Half, dt),
                  RSub(RMul(vadv[iup, j+1], XGamp(i, j)),
                       RMul(vadv[iup, j], XGamm(i, j)))), hy)

\* the extrapolation to the face centre, not traced back over dt/2
XStemNoAdvance(i, j) ==
    LET d == XDonor(i, j)
    IN  RAdd(s[d.iup, j],
             RMul(RMul(RMul(R(d.isign), hx), Half), slope[d.iup, j][1]))

XStem(i, j) ==
    LET d == XDonor(i, j)
    IN  RAdd(s[d.iup, j],
             RMul(RMul(RSub(RMul(R(d.isign), hx), RMul(uadv[i, j], dt)), Half),
                  slope[d.iup, j][1]))

XVaddif(i, j) ==
    LET iup == XDonor(i, j).iup
    IN  RDiv(RMul(RMul(RMul(XStem(i, j), Half), dt),
                  RSub(uadv[iup + 1, j], uadv[iup, j])), hx)

\* the divergence without its transverse part
XDivuNormalOnly(i, j) ==
    LET iup == XDonor(i, j).iup
    IN  RDiv(RSub(uadv[iup + 1, j], uadv[iup, j]), hx)

XDivu(i, j) ==
    LET iup == XDonor(i, j).iup
    IN  RAdd(RDiv(RSub(uadv[iup + 1, j], uadv[iup, j]), hx),
             RDiv(RSub(vadv[iup, j+1], vadv[iup, j]), hy))

\* siphj(i,j,k) = stem - vdif - vaddif + 0.5*dt*stem*divu + (dt/2.)*force(iup,j,k)
XEdgeVal(i, j) ==
    LET iup == XDonor(i, j).iup
        stem == XStem(i, j)
    IN  RAdd(RAdd(RSub(RSub(stem, XVdif(i, j)), XVaddif(i, j)),
                  RMul(RMul(RMul(Half, dt), stem), XDivu(i, j))),
             RMul(RDiv(dt, R(2)), force[iup, j]))

\* the indices one x-face iteration reads, per array
XFaceReads(i, j) ==
    LET iup == XDonor(i, j).iup
        tp == XPlusTrans(i, j, iup)
        tm == XMinusTrans(i, j, iup)
        donors == {<<iup, tp.jup>>, <<iup, tm.jup>>, <<iup, j>>}
    IN  [ s |-> donors,
          slope |-> donors,
          u |-> {<<i, j>>, <<iup + 1, j>>, <<iup, j>>}
                \cup (IF RPos(vadv[iup, j+1]) THEN {} ELSE {<<i, j+1>>})
                \cup (IF RPos(vadv[iup, j]) THEN {<<i, j-1>>} ELSE {}),
          v |-> {<<iup, j+1>>, <<iup, j>>},
          f |-> {<<iup, j>>} ]

\* the donor of a y-face at rest taken on the low side
YDonorNonNegative(i, j) ==
    IF vadv[i, j][1] >= 0 THEN [jup |-> j - 1, jsign |-> 1]
                          ELSE [jup |-> j, jsign |-> -1]

\* donor cell of a y-face: if (vadv(i,j,k) > 0.0)
YDonor(i, j) ==
    IF RPos(vadv[i, j]) THEN [jup |-> j - 1, jsign |-> 1]
                        ELSE [jup |-> j, jsign |-> -1]

\* transverse upwinding of Gamma plus for flux G
YPlusTrans(i, j, jup) ==
    IF RPos(uadv[i+1, jup])
    THEN [iup |-> i, isign |-> 1, v2 |-> vadv[i, j]]
    ELSE [iup |-> i + 1, isign |-> -1,
          v2 |-> IF RPos(RMul(vadv[i, j], vadv[i+1, j])) THEN vadv[i+1, j] ELSE Zero]

\* transverse upwinding of Gamma minus for flux G
YMinusTrans(i, j, jup) ==
    IF RPos(uadv[i, jup])
    THEN [iup |-> i - 1, isign |-> 1,
          v2 |-> IF RPos(RMul(vadv[i, j], vadv[i-1, j])) THEN vadv[i-1, j] ELSE Zero]
    ELSE [iup |-> i, isign |-> -1, v2 |-> vadv[i, j]]

\* s + (hys/2 - (v1+v2)dt/3) sy + (hxs/2 - uu dt/3) sx
\*   + (3 hxs hys - 2(v1+v2) dt hxs - 2 uu hys dt + (2 v2 + v1) uu dt dt) sxy / 12
GammaY(iup, jup, hxs, hys, v1, v2, uu) ==
    LET sl == slope[iup, jup]
        vv12 == RAdd(v1, v2)
        cy == RSub(RMul(hys, Half), RDiv(RMul(vv12, dt), R(3)))
        cx == RSub(RMul(hxs, Half), RDiv(RMul(uu, dt), R(3)))
        cxy == RAdd(RSub(RSub(RMul(R(3), RMul(hxs, hys)),
                              RMul(R(2), RMul(RMul(vv12, dt), hxs))),
                         RMul(R(2), RMul(RMul(uu, hys), dt))),
                    RMul(RMul(RAdd(RMul(R(2), v2), v1), uu), RMul(dt, dt)))
    IN  RAdd(Sum3(s[iup, jup], RMul(cy, sl[2]), RMul(cx, sl[1])),
             RDiv(RMul(cxy, sl[3]), R(12)))

YGamp(i, j) ==
    LET d == YDonor(i, j)
        t == YPlusTrans(i, j, d.jup)
    IN  GammaY(t.iup, d.jup, RMul(hx, R(t.isign)), RMul(hy, R(d.jsign)),
               vadv[i, j], t.v2, uadv[i+1, d.jup])

YGamm(i, j) ==
    LET d == YDonor(i, j)
        t == YMinusTrans(i, j, d.jup)
    IN  GammaY(t.iup, d.jup, RMul(hx, R(t.isign)), RMul(hy, R(d.jsign)),
               vadv[i, j], t.v2, uadv[i, d.jup])

\* the transverse difference divided by the mesh width of the x-face routine
YVdifOverHy(i, j) ==
    LET jup == YDonor(i, j).jup
    IN  RDiv(RMul(RMul(Half, dt),
                  RSub(RMul(uadv[i+1, jup], YGamp(i, j)),
                       RMul(uadv[i, jup], YGamm(i, j)))), hy)

YVdif(i, j) ==
    LET jup == YDonor(i, j).jup
    IN  RDiv(RMul(RMul(Half, dt),
                  RSub(RMul(uadv[i+1, jup], YGamp(i, j)),
                       RMul(uadv[i, jup], YGamm(i, j)))), hx)

YStem(i, j) ==
    LET d == YDonor(i, j)
    IN  RAdd(s[i, d.jup],
             RMul(RMul(RSub(RMul(R(d.jsign), hy), RMul(vadv[i, j], dt)), Half),
                  slope[i, d.jup][2]))

YVaddif(i, j) ==
    LET jup == YDonor(i, j).jup
    IN  RDiv(RMul(RMul(RMul(YStem(i, j), Half), dt),
                  RSub(vadv[i, jup + 1], vadv[i, jup])), hy)

YDivu(i, j) ==
    LET jup == YDonor(i, j).jup
    IN  RAdd(RDiv(RSub(uadv[i+1, jup], uadv[i, jup]), hx),
             RDiv(RSub(vadv[i, jup + 1], vadv[i, jup]), hy))

\* sijph(i,j,k) = stem - vdif - vaddif + 0.5*dt*stem*divu + (dt/2.)*force(i,jup,k)
YEdgeVal(i, j) ==
    LET jup == YDonor(i, j).jup
        stem == YStem(i, j)
    IN  RAdd(RAdd(RSub(RSub(stem, YVdif(i, j)), YVaddif(i, j)),
                  RMul(RMul(RMul(Half, dt), stem), YDivu(i, j))),
             RMul(RDiv(dt, R(2)), force[i, jup]))

\* the indices one y-face iteration reads, per array
YFaceReads(i, j) ==
    LET jup == YDonor(i, j).jup
        tp == YPlusTrans(i, j, jup)
        tm == YMinusTrans(i, j, jup)
        donors == {<<tp.iup, jup>>, <<tm.iup, jup>>, <<i, jup>>}
    IN  [ s |-> donors,
          slope |-> donors,
          u |-> {<<i + 1, jup>>, <<i, jup>>},
          v |-> {<<i, j>>, <<i, jup + 1>>, <<i, jup>>}
                \cup (IF RPos(uadv[i+1, jup]) THEN {} ELSE {<<i+1, j>>})
                \cup (IF RPos(uadv[i, jup]) THEN {<<i-1, j>>} ELSE {}),
          f |-> {<<i, jup>>} ]

-----------------------------------------------------------------------------
(* The inputs of a call.  A scenario is a record of the arrays and scalars *)
(* the caller passes.  Scalar values of the hashed fields are written in   *)
(* units of 1.0e-8, so that corner deviations fall on both sides of eps;   *)
(* the kernel is homogeneous of degree one in (s, force), so a change of   *)
(* unit changes nothing but the number that stands for eps.                *)

EpsNatural == Rat(1, 100000000)   \* constexpr amrex::Real eps = 1.0e-8
EpsUnit == R(1)                   \* the same tolerance in units of 1.0e-8

MaxSeed == 7
MaxAhead == 1

Hash(seed, i, j) ==
    (seed * 7 + (i + 3) * (seed + 3) + (j + 3) * 5 + (i + 3) * (j + 3) * (seed + 1)) % 11

SVals == <<R(0), R(1), R(2), R(5), R(-4), R(3)>>
\* values from far below eps to far above it, in units of 1.0e-8
WideVals == <<R(0), R(1), R(2), R(600), R(3000), R(3)>>
UVals == <<R(-1), R(0), R(1), Rat(1, 2)>>
FVals == <<R(0), R(4), R(-2)>>

Geoms == { [hx |-> R(1), hy |-> R(1), dt |-> Rat(1, 10)],
           [hx |-> R(2), hy |-> Rat(1, 2), dt |-> Rat(1, 2)] }

HashS(seed) == [c \in Cells(SReach) |-> SVals[(Hash(seed, c[1], c[2]) % 6) + 1]]
WideS(seed) == [c \in Cells(SReach) |-> WideVals[(Hash(seed, c[1], c[2]) % 6) + 1]]
HashU(seed) == [f \in XFaces(1) |-> UVals[(Hash(seed + 1, f[1], f[2]) % 4) + 1]]
HashV(seed) == [f \in YFaces(1) |-> UVals[(Hash(seed + 2, f[2], f[1]) % 4) + 1]]
HashF(seed) == [c \in Cells(1) |-> FVals[(Hash(seed + 3, c[1], c[2]) % 3) + 1]]

ConstS(c) == [x \in Cells(SReach) |-> c]
ConstU(c) == [f \in XFaces(1) |-> c]
ConstV(c) == [f \in YFaces(1) |-> c]
ConstF(c) == [x \in Cells(1) |-> c]

\* cell-centre and corner coordinates of the geometry
Xc(i, h) == RMul(RAdd(R(i), Half), h)
Yc(j, h) == RMul(RAdd(R(j), Half), h)
LinearAt(a, b, c, x, y) == Sum3(RMul(a, x), RMul(b, y), c)
LinearS(a, b, c, g) ==
    [x \in Cells(SReach) |-> LinearAt(a, b, c, Xc(x[1], g.hx), Yc(x[2], g.hy))]
IndexS == [x \in Cells(SReach) |-> R(x[1])]

Scen(sv, uv, vv, fv, g, e) ==
    [s |-> sv, uadv |-> uv, vadv |-> vv, force |-> fv,
     hx |-> g.hx, hy |-> g.hy, dt |-> g.dt, eps |-> e]

\* arbitrary fields, velocities and forces
HashScens ==
    { Scen(HashS(sd), HashU(sd), HashV(sd), HashF(sd), g, EpsNatural) :
        sd \in 0..MaxSeed, g \in Geoms }

\* uniform fields, no force, arbitrary velocities
ConstVals == {R(7), Rat(314, 100), R(0), R(-3)}
ConstScens ==
    { Scen(ConstS(c), HashU(sd), HashV(sd), ConstF(Zero), g, EpsNatural) :
        c \in ConstVals, sd \in {0, MaxSeed}, g \in Geoms }

\* linear fields, arbitrary velocities and forces
LinCoefs == {R(0), R(1), Rat(-3, 2)}
LinScens ==
    { Scen(LinearS(a, b, c, g), HashU(sd), HashV(sd), HashF(sd), g, EpsNatural) :
        a \in LinCoefs, b \in LinCoefs, c \in {R(0), R(5)}, sd \in {MaxSeed}, g \in Geoms }

\* s(i,j) = i, u = 1, v = 0, no force
XSlopeScens ==
    { Scen(IndexS, ConstU(R(1)), ConstV(Zero), ConstF(Zero), g, EpsNatural) : g \in Geoms }

\* fields of wide range at rest
NoFlowScens ==
    { Scen(WideS(sd), ConstU(Zero), ConstV(Zero), ConstF(Zero), g, EpsUnit) :
        sd \in 0..MaxSeed, g \in Geoms }

\* a field at rest whose limiter needs its third sweep at the cell o: two
\* values, one on the five cells PatchCells around o and one elsewhere
PatchCells == {<<1, 2>>, <<1, 1>>, <<-2, 0>>, <<0, 0>>, <<-2, -1>>}
PatchS(o, in, out) ==
    [c \in Cells(SReach) |-> IF <<c[1] - o[1], c[2] - o[2]>> \in PatchCells THEN in ELSE out]
PatchScens ==
    { Scen(PatchS(o, v[1], v[2]), ConstU(Zero), ConstV(Zero), ConstF(Zero), g, EpsNatural) :
        o \in Cells(0), v \in {<<R(1), R(0)>>, <<R(2), R(5)>>}, g \in Geoms }

Scens ==
    HashScens \cup ConstScens \cup LinScens \cup XSlopeScens \cup NoFlowScens \cup PatchScens

ConsVals == {0, 1}
OtherConsVals == {-1, 2}

AbortMessage == "For 2D, BDS algorithm currently only supports conservative computations"

InitFrom(scens, cons, orders) ==
    /\ \E sn \in scens :
         /\ s = sn.s /\ uadv = sn.uadv /\ vadv = sn.vadv /\ force = sn.force
         /\ hx = sn.hx /\ hy = sn.hy /\ dt = sn.dt /\ eps = sn.eps
    /\ is_conservative \in cons
    /\ order \in orders
    /\ pc = "entry"
    /\ abortMsg = ""
    /\ sint = [n \in Nodes(SintNGrow) |-> NoVal]
    /\ slope = [c \in Cells(SlopeNGrow) |-> NoVal]
    /\ xedge = [f \in XFaces(0) |-> NoVal]
    /\ yedge = [f \in YFaces(0) |-> NoVal]
    /\ cur = NoCell /\ ll = 0
    /\ sc = NoVal /\ smin = NoVal /\ smax = NoVal
    /\ sReads = [corner |-> {}, slope |-> {}, conc |-> {}]
    /\ sintReads = {} /\ slopeReads = {}
    /\ uReads = {} /\ vReads = {} /\ fReads = {}
    /\ writes = [sint |-> [n \in Nodes(SintNGrow) |-> 0],
                 slope |-> [c \in Cells(SlopeNGrow) |-> 0],
                 xedge |-> [f \in XFaces(0) |-> 0],
                 yedge |-> [f \in YFaces(0) |-> 0]]
    /\ ownReads = {}
    /\ call = "whole" /\ prev = NoVal

\* the fields run in the other orders
OrderScens ==
    { Scen(HashS(sd), HashU(sd), HashV(sd), HashF(sd), g, EpsNatural) :
        sd \in {MaxSeed}, g \in Geoms }

Init ==
    \/ InitFrom(Scens, ConsVals, {"loop"})
    \/ InitFrom(XSlopeScens, OtherConsVals, {"loop"})
    \/ InitFrom(OrderScens, {1}, {"reverse", "any"})

-----------------------------------------------------------------------------
(* ParallelFor(bx, f): on the host a loop over j and, innermost, i; on a   *)
(* device the iterations run in any order.                                 *)

LoopFirst(S) ==
    CHOOSE p \in S : \A q \in S : p[2] < q[2] \/ (p[2] = q[2] /\ p[1] <= q[1])

LoopBefore(p, q) == p[2] < q[2] \/ (p[2] = q[2] /\ p[1] < q[1])
LoopLast(S) == CHOOSE p \in S : \A q \in S : ~LoopBefore(p, q)

\* the iterations that may run next: the first of the host loop, the last
\* of a loop run backwards, or any of the row of the first one left that
\* lies at most MaxAhead places after it
MayRun(p, rem) ==
    CASE order = "loop" -> p = LoopFirst(rem)
      [] order = "reverse" -> p = LoopLast(rem)
      [] order = "any" ->
           LET first == LoopFirst(rem)
           IN  p[2] = first[2] /\ p[1] - first[1] <= MaxAhead

CornerRem == {n \in CornerBox : sint[n] = NoVal}
SlopeRem == {c \in SlopeBox : slope[c] = NoVal}
XRem == {f \in XFaces(0) : xedge[f] = NoVal}
YRem == {f \in YFaces(0) : yedge[f] = NoVal}

scratch == <<sint, slope, cur, ll, sc, smin, smax>>
edges == <<xedge, yedge>>
reads == <<sReads, sintReads, slopeReads, uReads, vReads, fReads, ownReads>>

\* !is_conservative, of an int
NotConservativeTruthy == is_conservative # 1
NotConservative == is_conservative = 0

\* if(!is_conservative) Abort(...)
Abort ==
    /\ pc = "entry"
    /\ NotConservative
    /\ pc' = "aborted"
    /\ abortMsg' = AbortMessage
    /\ UNCHANGED <<inputs, scratch, edges, reads, writes>>

\* ComputeEdgeState allocates slope_mf and calls ComputeSlopes
Enter ==
    /\ pc = "entry"
    /\ ~NotConservative
    /\ pc' = "corner"
    /\ UNCHANGED <<inputs, abortMsg, scratch, edges, reads, writes>>

\* one iteration of the corner loop
Corner(n) ==
    /\ pc = "corner"
    /\ n \in CornerRem
    /\ MayRun(n, CornerRem)
    /\ sint' = [sint EXCEPT ![n] = SintVal(n[1], n[2])]
    /\ writes' = [writes EXCEPT !.sint[n] = @ + 1]
    /\ sReads' = [sReads EXCEPT !.corner = @ \cup CornerStencil(n[1], n[2])]
    /\ pc' = IF CornerRem = {n} THEN "slope" ELSE "corner"
    /\ UNCHANGED <<inputs, abortMsg, slope, cur, ll, sc, smin, smax, edges,
                   sintReads, slopeReads, uReads, vReads, fReads, ownReads>>

\* one iteration of the slope loop, up to the clamp
SlopeBegin(c) ==
    /\ pc = "slope"
    /\ cur = NoCell
    /\ c \in SlopeRem
    /\ MayRun(c, SlopeRem)
    /\ LET sl == UnlimitedSlope(c[1], c[2])
           lo == SminOf(c[1], c[2])
           hi == SmaxOf(c[1], c[2])
       IN  /\ slope' = [slope EXCEPT ![c] = sl]
           /\ writes' = [writes EXCEPT !.slope[c] = @ + 1]
           /\ IF limit_slopes
              THEN /\ cur' = c
                   /\ smin' = lo
                   /\ smax' = hi
                   /\ sc' = ClampAll(CornersOf(s[c], sl), lo, hi)
                   /\ sReads' = [sReads EXCEPT !.slope = @ \cup SlopeSStencil(c[1], c[2])]
                   /\ ownReads' = ownReads \cup {<<c, c>>}
                   /\ pc' = "slope"
              ELSE /\ UNCHANGED <<cur, smin, smax, sc, sReads, ownReads>>
                   /\ pc' = IF SlopeRem = {c} THEN "xface" ELSE "slope"
    /\ ll' = 0
    /\ sintReads' = sintReads \cup SlopeSintStencil(c[1], c[2])
    /\ UNCHANGED <<inputs, abortMsg, sint, edges, slopeReads, uReads, vReads, fReads>>

\* one sweep of the iterative loop of the iteration in flight
LimiterSweep ==
    /\ pc = "slope"
    /\ cur # NoCell
    /\ ll < NSweeps
    /\ sc' = Sweep(sc, s[cur], smin, smax)
    /\ ll' = ll + 1
    /\ UNCHANGED <<inputs, pc, abortMsg, sint, slope, cur, smin, smax, edges, reads,
                   writes>>

\* the final slopes of the iteration in flight, which ends
SlopeFinal ==
    /\ pc = "slope"
    /\ cur # NoCell
    /\ ll = NSweeps
    /\ slope' = [slope EXCEPT ![cur] = FinalSlope(sc)]
    /\ writes' = [writes EXCEPT !.slope[cur] = @ + 1]
    /\ cur' = NoCell
    /\ ll' = 0
    /\ sc' = NoVal /\ smin' = NoVal /\ smax' = NoVal
    /\ pc' = IF SlopeRem = {} THEN "xface" ELSE "slope"
    /\ UNCHANGED <<inputs, abortMsg, sint, edges, reads>>

\* one iteration of the x-face loop
XFace(f) ==
    /\ pc = "xface"
    /\ f \in XRem
    /\ MayRun(f, XRem)
    /\ xedge' = [xedge EXCEPT ![f] = XEdgeVal(f[1], f[2])]
    /\ writes' = [writes EXCEPT !.xedge[f] = @ + 1]
    /\ LET r == XFaceReads(f[1], f[2])
       IN  /\ sReads' = [sReads EXCEPT !.conc = @ \cup r.s]
           /\ slopeReads' = slopeReads \cup r.slope
           /\ uReads' = uReads \cup r.u
           /\ vReads' = vReads \cup r.v
           /\ fReads' = fReads \cup r.f
    /\ pc' = IF XRem = {f} THEN "yface" ELSE "xface"
    /\ UNCHANGED <<inputs, abortMsg, scratch, yedge, sintReads, ownReads>>

\* one iteration of the y-face loop
YFace(f) ==
    /\ pc = "yface"
    /\ f \in YRem
    /\ MayRun(f, YRem)
    /\ yedge' = [yedge EXCEPT ![f] = YEdgeVal(f[1], f[2])]
    /\ writes' = [writes EXCEPT !.yedge[f] = @ + 1]
    /\ LET r == YFaceReads(f[1], f[2])
       IN  /\ sReads' = [sReads EXCEPT !.conc = @ \cup r.s]
           /\ slopeReads' = slopeReads \cup r.slope
           /\ uReads' = uReads \cup r.u
           /\ vReads' = vReads \cup r.v
           /\ fReads' = fReads \cup r.f
    /\ pc' = IF YRem = {f} THEN "done" ELSE "yface"
    /\ UNCHANGED <<inputs, abortMsg, scratch, xedge, sintReads, ownReads>>

Next ==
    \/ Abort
    \/ Enter
    \/ \E n \in CornerBox : Corner(n)
    \/ \E c \in SlopeBox : SlopeBegin(c)
    \/ LimiterSweep
    \/ SlopeFinal
    \/ \E f \in XFaces(0) : XFace(f)
    \/ \E f \in YFaces(0) : YFace(f)

Spec == Init /\ [][Next]_vars

-----------------------------------------------------------------------------
(* ComputeConc as a function of its arguments: called on given slopes, and *)
(* called again on the image of its arguments under a reflection in x or   *)
(* under the exchange of the two axes.                                     *)

SlopeVals == <<R(0), R(1), R(-1), Rat(1, 2)>>
HashSlope(seed) ==
    [c \in Cells(SlopeNGrow) |->
        << SlopeVals[(Hash(seed + 4, c[1], c[2]) % 4) + 1],
           SlopeVals[(Hash(seed + 5, c[2], c[1]) % 4) + 1],
           SlopeVals[(Hash(seed + 6, c[1], c[2]) % 4) + 1] >>]

NoCounts ==
    [sint |-> [n \in Nodes(SintNGrow) |-> 0],
     slope |-> [c \in Cells(SlopeNGrow) |-> 0],
     xedge |-> [f \in XFaces(0) |-> 0],
     yedge |-> [f \in YFaces(0) |-> 0]]

\* ComputeConc entered with its arguments
EnterConc ==
    /\ pc = "xface"
    /\ abortMsg = ""
    /\ xedge = [f \in XFaces(0) |-> NoVal]
    /\ yedge = [f \in YFaces(0) |-> NoVal]
    /\ sReads = [corner |-> {}, slope |-> {}, conc |-> {}]
    /\ sintReads = {} /\ slopeReads = {} /\ ownReads = {}
    /\ uReads = {} /\ vReads = {} /\ fReads = {}
    /\ writes = NoCounts

\* ComputeConc entered again
EnterConcAgain ==
    /\ pc' = "xface"
    /\ abortMsg' = ""
    /\ xedge' = [f \in XFaces(0) |-> NoVal]
    /\ yedge' = [f \in YFaces(0) |-> NoVal]
    /\ sReads' = [corner |-> {}, slope |-> {}, conc |-> {}]
    /\ sintReads' = {} /\ slopeReads' = {} /\ ownReads' = {}
    /\ uReads' = {} /\ vReads' = {} /\ fReads' = {}
    /\ writes' = NoCounts

InitConc ==
    /\ \E sd \in 0..MaxSeed, g \in Geoms :
         /\ s = HashS(sd) /\ uadv = HashU(sd) /\ vadv = HashV(sd) /\ force = HashF(sd)
         /\ slope = HashSlope(sd)
         /\ hx = g.hx /\ hy = g.hy /\ dt = g.dt
    /\ eps = EpsNatural
    /\ is_conservative = 1
    /\ order = "loop"
    /\ sint = [n \in Nodes(SintNGrow) |-> NoVal]
    /\ cur = NoCell /\ ll = 0
    /\ sc = NoVal /\ smin = NoVal /\ smax = NoVal
    /\ call = "given" /\ prev = NoVal
    /\ EnterConc

\* the reflection in x: cell i <-> Nx-1-i, x-face i <-> Nx-i
MirrorCell(c) == <<Nx - 1 - c[1], c[2]>>
MirrorXFace(f) == <<Nx - f[1], f[2]>>

\* the exchange of the axes
Transpose(p) == <<p[2], p[1]>>

\* what a call of ComputeConc returned, and the donors it took
Returned ==
    [xedge |-> xedge, yedge |-> yedge, uadv |-> uadv,
     xdonor |-> [f \in XFaces(0) |-> XDonor(f[1], f[2]).iup]]

\* the caller calls ComputeConc on the arguments reflected in x: s, v_face
\* and force reflected, u_face reflected and negated, sx and sxy negated
CallMirrored ==
    /\ pc = "done" /\ call = "given"
    /\ call' = "mirrored"
    /\ prev' = Returned
    /\ s' = [c \in DOMAIN s |-> s[MirrorCell(c)]]
    /\ force' = [c \in DOMAIN force |-> force[MirrorCell(c)]]
    /\ uadv' = [f \in DOMAIN uadv |-> RNeg(uadv[MirrorXFace(f)])]
    /\ vadv' = [f \in DOMAIN vadv |-> vadv[MirrorCell(f)]]
    /\ slope' = [c \in DOMAIN slope |->
                    LET sl == slope[MirrorCell(c)]
                    IN  <<RNeg(sl[1]), sl[2], RNeg(sl[3])>>]
    /\ EnterConcAgain
    /\ UNCHANGED <<is_conservative, hx, hy, dt, eps, order, sint, cur, ll, sc, smin, smax>>

\* the caller calls ComputeConc on the transposed arguments: i and j
\* exchanged, u_face and v_face exchanged, sx and sy, hx and hy exchanged
CallTransposed ==
    /\ pc = "done" /\ call = "given"
    /\ Nx = Ny
    /\ call' = "transposed"
    /\ prev' = Returned
    /\ s' = [c \in DOMAIN s |-> s[Transpose(c)]]
    /\ force' = [c \in DOMAIN force |-> force[Transpose(c)]]
    /\ uadv' = [f \in DOMAIN uadv |-> vadv[Transpose(f)]]
    /\ vadv' = [f \in DOMAIN vadv |-> uadv[Transpose(f)]]
    /\ slope' = [c \in DOMAIN slope |->
                    LET sl == slope[Transpose(c)]
                    IN  <<sl[2], sl[1], sl[3]>>]
    /\ hx' = hy /\ hy' = hx
    /\ EnterConcAgain
    /\ UNCHANGED <<is_conservative, dt, eps, order, sint, cur, ll, sc, smin, smax>>

NextConc ==
    \/ \E f \in XFaces(0) : XFace(f)
    \/ \E f \in YFaces(0) : YFace(f)
    \/ CallMirrored
    \/ CallTransposed

SpecConc == InitConc /\ [][NextConc]_vars

-----------------------------------------------------------------------------
(* Properties.                                                             *)

Written(f) == {x \in DOMAIN f : f[x] # NoVal}
NothingWritten ==
    /\ Written(sint) = {} /\ Written(slope) = {}
    /\ Written(xedge) = {} /\ Written(yedge) = {}
    /\ cur = NoCell
NothingRead ==
    /\ sReads.corner = {} /\ sReads.slope = {} /\ sReads.conc = {}
    /\ sintReads = {} /\ slopeReads = {}
    /\ uReads = {} /\ vReads = {} /\ fReads = {}
SlopesComplete == Written(slope) = SlopeBox /\ cur = NoCell
InConc == pc \in {"xface", "yface", "done"}
\* short of "done" there is an iteration left to run
CanStep ==
    /\ pc = "corner" => CornerRem # {}
    /\ pc = "slope" => cur # NoCell \/ SlopeRem # {}
    /\ pc = "xface" => XRem # {}
    /\ pc = "yface" => YRem # {}

(* C1: a call with is_conservative = 0 aborts with the message of line 54  *)
(* before any slope is computed and before any element of xedge or yedge   *)
(* is written; a call with any non-zero is_conservative never aborts, runs *)
(* ComputeSlopes to its end before ComputeConc writes an edge, and has an  *)
(* iteration left to run until every edge is written.                      *)
C1_AbortOnlyNonConservative ==
    /\ is_conservative = 0 => /\ pc \in {"entry", "aborted"}
                              /\ NothingWritten /\ NothingRead
    /\ pc = "aborted" => is_conservative = 0 /\ abortMsg = AbortMessage
    /\ is_conservative # 0 =>
         /\ pc # "aborted" /\ abortMsg = ""
         /\ InConc => SlopesComplete
         /\ ~InConc => Written(xedge) = {} /\ Written(yedge) = {}
         /\ pc = "done" => Written(xedge) = XFaces(0) /\ Written(yedge) = YFaces(0)
         /\ CanStep

C1_Witness == pc = "aborted" /\ is_conservative = 0 /\ abortMsg = AbortMessage

UniformS == \A c \in DOMAIN s : s[c] = s[0, 0]
ZeroForce == \A c \in DOMAIN force : force[c] = Zero
ZeroSlope == <<Zero, Zero, Zero>>

(* C2: constant preservation.  If s is one constant c on every cell, ghost *)
(* cells included, and force is 0, then whatever the face velocities, dt,  *)
(* hx and hy: every sint written is c, every slope written (the unlimited  *)
(* one and the final one) is 0 in its three components, the limiter's      *)
(* corners are c, and every xedge and yedge written is c.                  *)
C2_ConstantPreserved ==
    (UniformS /\ ZeroForce) =>
        /\ \A n \in Written(sint) : sint[n] = s[0, 0]
        /\ \A c \in Written(slope) : slope[c] = ZeroSlope
        /\ cur # NoCell => \A k \in 1..4 : sc[k] = s[0, 0]
        /\ \A f \in Written(xedge) : xedge[f] = s[0, 0]
        /\ \A f \in Written(yedge) : yedge[f] = s[0, 0]

\* a uniform non-zero field carried to the end by velocities of both signs,
\* not divergence-free at the donor of some x-face
C2_Witness ==
    /\ pc = "done" /\ UniformS /\ ZeroForce /\ s[0, 0] # Zero
    /\ \E f \in XFaces(0) : RPos(uadv[f])
    /\ \E f \in XFaces(0) : ~RPos(uadv[f])
    /\ \E f \in YFaces(0) : RPos(vadv[f])
    /\ \E f \in XFaces(0) : XDivu(f[1], f[2]) # Zero

\* the cell centres sharing corner k of cell c (1 = --, 2 = -+, 3 = +-, 4 = ++)
SharingCells(c, k) ==
    LET is == IF k \in {3, 4} THEN {c[1], c[1] + 1} ELSE {c[1] - 1, c[1]}
        js == IF k \in {2, 4} THEN {c[2], c[2] + 1} ELSE {c[2] - 1, c[2]}
    IN  is \X js

InEnvelope(x, c, k) ==
    /\ \E q \in SharingCells(c, k) : RLe(s[q], x)
    /\ \E q \in SharingCells(c, k) : RLe(x, s[q])

\* the corner values of the unlimited profile of the cell in flight
UnclampedSc == CornersOf(s[cur], UnlimitedSlope(cur[1], cur[2]))

(* C3: envelope bound.  In the slope iteration of any cell, after the      *)
(* clamp (ll = 0) and after each of the three sweeps (ll = 1, 2, 3), each  *)
(* corner value sc(k) lies between the least and the greatest of the four  *)
(* cell centres sharing corner k.                                          *)
C3_EnvelopeBound ==
    cur # NoCell => \A k \in 1..4 : InEnvelope(sc[k], cur, k)

\* after the third sweep of a cell one of whose unlimited corners overshot
\* its envelope and whose sweeps moved a corner
C3_Witness ==
    /\ cur # NoCell /\ ll = NSweeps
    /\ \E k \in 1..4 : ~InEnvelope(UnclampedSc[k], cur, k)
    /\ sc # ClampAll(UnclampedSc, smin, smax)

LimiterDone == cur # NoCell /\ ll = NSweeps
MeanSc == RMul(Quarter, SumSc(sc))
\* the residual 4*(mean(sc) - s(i,j)) of the cell in flight and the corner
\* deviations the next sweep would test against eps
Residual == Sumdif(sc, s[cur])
Deviation == Diff(sc, s[cur], Sgndif(Residual))

(* C4 as claimed: after the clamp and the three sweeps the arithmetic mean *)
(* of the four adjusted corner values equals s(i,j) exactly.               *)
C4_MeanExact == LimiterDone => MeanSc = s[cur]

(* C4, amended: after the clamp and the three sweeps the mean of the four  *)
(* adjusted corner values is within 3*eps/4 of s(i,j) (|sumdif| <= 3*eps), *)
(* and it differs from s(i,j) only when no corner deviation                *)
(* sgndif*(sc(k) - s(i,j)) exceeds eps, so that no further sweep would     *)
(* move a corner.                                                          *)
C4_MeanWithinEps ==
    LimiterDone =>
        /\ RLe(RAbs(Residual), RMul(R(3), eps))
        /\ Residual # Zero => \A k \in 1..4 : ~Active(Deviation[k])

\* three sweeps have moved a corner and left a residual
C4_Witness ==
    /\ LimiterDone
    /\ sc # ClampAll(UnclampedSc, smin, smax)
    /\ Residual # Zero

MeanError == RAbs(RSub(MeanSc, s[cur]))
TenEps == RMul(R(10), eps)
\* the corners of the cell in flight as its first sweep left them
ScAfterFirstSweep == Sweep(ClampAll(UnclampedSc, smin, smax), s[cur], smin, smax)
MeanErrorAfterFirstSweep ==
    RAbs(RSub(RMul(Quarter, SumSc(ScAfterFirstSweep)), s[cur]))

(* C5 as claimed: at the end of each limiter sweep (ll = 1, 2 and 3) the   *)
(* mean of the four corner values is within 10*eps of s(i,j).              *)
C5_MeanAfterEachSweep ==
    (cur # NoCell /\ ll >= 1) => RLe(MeanError, TenEps)

(* C5, amended: at the end of the third limiter sweep the mean of the four *)
(* corner values is within 10*eps of s(i,j); after the first and the       *)
(* second sweep it need not be.                                            *)
C5_MeanAfterLastSweep == LimiterDone => RLe(MeanError, TenEps)

\* the third sweep has ended for a cell whose mean was off by more than
\* 10*eps after its first sweep
C5_Witness == LimiterDone /\ RGt(MeanErrorAfterFirstSweep, TenEps)

AllSReads == sReads.corner \cup sReads.slope \cup sReads.conc
PastCorners == pc \in {"slope", "xface", "yface", "done"}

(* C6 as claimed: every read of s by ComputeEdgeState falls inside the     *)
(* valid cell box grown by 2.                                              *)
C6_SReadsWithinTwoGhosts == AllSReads \subseteq Cells(2)

(* C6, amended: every read of s falls inside the valid cell box grown by   *)
(* 3.  The reads of the slope loop (limiter included) stay inside the box  *)
(* grown by 2 and those of the edge loops inside the box grown by 1, but   *)
(* the corner stencil, run over the nodal box grown by one, reads every    *)
(* cell of the box grown by 3: s needs 3 ghost cells.                      *)
C6_SReadsWithinThreeGhosts ==
    /\ sReads.corner \subseteq Cells(3)
    /\ sReads.slope \subseteq Cells(2)
    /\ sReads.conc \subseteq Cells(1)
    /\ PastCorners => sReads.corner = Cells(3)

\* the call has ended and has read a cell of the third ghost layer
C6_Witness ==
    /\ pc = "done"
    /\ \E c \in AllSReads : c \notin Cells(2)
    /\ sReads.slope # {} /\ sReads.conc # {}

XDonorIndices(f) ==
    LET i == f[1]
        j == f[2]
        iup == XDonor(i, j).iup
    IN  /\ iup \in {i - 1, i}
        /\ XPlusTrans(i, j, iup).jup \in {j, j + 1}
        /\ XMinusTrans(i, j, iup).jup \in {j - 1, j}

YDonorIndices(f) ==
    LET i == f[1]
        j == f[2]
        jup == YDonor(i, j).jup
    IN  /\ jup \in {j - 1, j}
        /\ YPlusTrans(i, j, jup).iup \in {i, i + 1}
        /\ YMinusTrans(i, j, jup).iup \in {i - 1, i}

(* C7: ghost width of the other arrays.  Every index the x-face and y-face *)
(* loops of ComputeConc read lies within one ghost layer of u_face, one of *)
(* v_face, one ghost cell of force and the one-ghost-cell slopes array;    *)
(* every sint node the slope loop reads lies in the nodal box grown by 1;  *)
(* on an x-face the donor has iup in {i-1, i} and jup in {j-1, j, j+1},    *)
(* and on a y-face jup in {j-1, j} and iup in {i-1, i, i+1}.               *)
C7_ReadsWithinOneGhost ==
    /\ uReads \subseteq XFaces(1)
    /\ vReads \subseteq YFaces(1)
    /\ fReads \subseteq Cells(1)
    /\ slopeReads \subseteq Cells(SlopeNGrow)
    /\ sintReads \subseteq Nodes(SintNGrow)
    /\ \A f \in XFaces(0) : XDonorIndices(f)
    /\ \A f \in YFaces(0) : YDonorIndices(f)

\* the call has ended; it has read a ghost index of each array, with donors
\* on either side of an x-face and of a y-face
C7_Witness ==
    /\ pc = "done"
    /\ uReads \ XFaces(0) # {} /\ vReads \ YFaces(0) # {}
    /\ fReads \ Cells(0) # {} /\ slopeReads \ Cells(0) # {}
    /\ sintReads \ Nodes(0) # {}
    /\ \E f, g \in XFaces(0) : RPos(uadv[f]) /\ ~RPos(uadv[g])
    /\ \E f, g \in YFaces(0) : RPos(vadv[f]) /\ ~RPos(vadv[g])

\* the coefficients of the linear function through s(0,0), s(1,0), s(0,1)
LinA == RDiv(RSub(s[1, 0], s[0, 0]), hx)
LinB == RDiv(RSub(s[0, 1], s[0, 0]), hy)
LinC == RSub(RSub(s[0, 0], RMul(LinA, Xc(0, hx))), RMul(LinB, Yc(0, hy)))
\* s is linear in the cell centres: its increments along x and along y are
\* the same everywhere (then s = LinA*xc + LinB*yc + LinC on every cell)
LinearField ==
    LET ex == RSub(s[1, 0], s[0, 0])
        ey == RSub(s[0, 1], s[0, 0])
    IN  \A x \in DOMAIN s :
           /\ <<x[1] + 1, x[2]>> \in DOMAIN s => RSub(s[x[1] + 1, x[2]], s[x]) = ex
           /\ <<x[1], x[2] + 1>> \in DOMAIN s => RSub(s[x[1], x[2] + 1], s[x]) = ey
AtCorner(a, b, c, n) == LinearAt(a, b, c, RMul(R(n[1]), hx), RMul(R(n[2]), hy))

(* C8: linear preservation.  If s(i,j) = a*xc(i) + b*yc(j) + c on every    *)
(* cell, ghost cells included, then every sint written equals a*x + b*y + c *)
(* at the lower-left corner (i*hx, j*hy) of its cell, and the unlimited     *)
(* slopes computed from sint (complete once the corner loop has ended, and  *)
(* looked at between two cells of the slope loop) are sx = a, sy = b,       *)
(* sxy = 0 in every cell of the slope loop, as is the slope array of the    *)
(* cell being limited.                                                      *)
C8_LinearPreserved ==
    LinearField =>
        LET a == LinA
            b == LinB
            c == LinC
        IN  /\ \A n \in Written(sint) : sint[n] = AtCorner(a, b, c, n)
            /\ (pc = "slope" /\ cur = NoCell) =>
                  \A x \in SlopeBox : UnlimitedSlope(x[1], x[2]) = <<a, b, Zero>>
            /\ cur # NoCell => slope[cur] = <<a, b, Zero>>

\* a field with two different non-zero gradients on a mesh with hx # hy,
\* in the slope loop, the unlimited slope of a cell just stored
C8_Witness ==
    /\ LinearField /\ LinA # Zero /\ LinB # Zero /\ LinA # LinB /\ LinC # Zero
    /\ hx # hy
    /\ pc = "slope" /\ cur # NoCell /\ ll = 0
    /\ Written(sint) = CornerBox

XSlopeField ==
    /\ \A x \in DOMAIN s : s[x] = R(x[1])
    /\ \A f \in DOMAIN uadv : uadv[f] = R(1)
    /\ \A f \in DOMAIN vadv : vadv[f] = Zero
    /\ ZeroForce
XSlope == <<RInv(hx), Zero, Zero>>

(* C9: pure x-slope.  With s(i,j) = i on every cell, ghost cells included,  *)
(* u_face = 1, v_face = 0 and force = 0: the limiter leaves the corners of  *)
(* the linear profile as they are in every sweep, every slope written is    *)
(* sx = 1/hx, sy = 0, sxy = 0, and every x-edge state written is            *)
(* xedge(i,j) = (i-1) + (1/2)*(hx - dt)/hx.                                 *)
C9_XSlopeScenario ==
    XSlopeField =>
        /\ \A c \in Written(slope) : slope[c] = XSlope
        /\ cur # NoCell => sc = CornersOf(s[cur], XSlope)
        /\ \A f \in Written(xedge) :
              xedge[f] = RAdd(R(f[1] - 1), RDiv(RMul(Half, RSub(hx, dt)), hx))

\* the scenario run to its end on the mesh with hx # 1
C9_Witness ==
    /\ XSlopeField /\ pc = "done" /\ hx # R(1)
    /\ Written(xedge) = XFaces(0) /\ SlopesComplete

NoFlow ==
    /\ \A f \in DOMAIN uadv : uadv[f] = Zero
    /\ \A f \in DOMAIN vadv : vadv[f] = Zero
    /\ ZeroForce
XTermsVanish(f) ==
    /\ XVdif(f[1], f[2]) = Zero
    /\ XVaddif(f[1], f[2]) = Zero
    /\ RMul(RMul(RMul(Half, dt), XStem(f[1], f[2])), XDivu(f[1], f[2])) = Zero
LowSide(f) == RAdd(s[f[1] - 1, f[2]], RMul(RMul(Half, hx), slope[f[1] - 1, f[2]][1]))
HighSide(f) == RSub(s[f[1], f[2]], RMul(RMul(Half, hx), slope[f[1], f[2]][1]))

(* C10 as stated: at rest (u_face = 0, v_face = 0, force = 0) vdif, vaddif *)
(* and the divu term vanish and xedge(i,j) = s(i-1,j) + (1/2)*hx*sx(i-1,j), *)
(* the extrapolation from the cell on the low side of the face.            *)
C10_NoFlowLowSide ==
    NoFlow => \A f \in Written(xedge) : XTermsVanish(f) /\ xedge[f] = LowSide(f)

(* C10: at rest (u_face = 0, v_face = 0, force = 0), for every field s,    *)
(* vdif, vaddif and the divu term vanish and every x-edge state written is *)
(* xedge(i,j) = s(i,j) - (1/2)*hx*sx(i,j), the extrapolation from the cell *)
(* on the high side of the face, the donor the test u > 0 leaves for u = 0. *)
C10_NoFlowHighSide ==
    NoFlow => \A f \in Written(xedge) : XTermsVanish(f) /\ xedge[f] = HighSide(f)

\* a field at rest run to its end, the two extrapolations apart on a face
\* whose donor has a slope in x
C10_Witness ==
    /\ NoFlow /\ pc = "done"
    /\ \E f \in Written(xedge) :
          /\ LowSide(f) # HighSide(f)
          /\ slope[f[1], f[2]][1] # Zero

\* a step of the limiter: one sweep, and the store of the final slopes
SweepStep == cur # NoCell /\ cur' = cur /\ ll' = ll + 1
FinalStep == cur # NoCell /\ cur' = NoCell
ZeroResidual == Sumdif(sc, s[cur]) = Zero

(* C11: zero residual in the limiter.  A sweep entered with sumdif = 0 has  *)
(* sgndif = +1, changes none of the four sc(k) (redfac = 0 at every corner) *)
(* and ends with sumdif = 0, whatever diff, smin and smax are; the final    *)
(* slopes stored are those derived from the sc the last sweep left, hence   *)
(* from the sc at the entry of the first sweep that saw sumdif = 0.         *)
C11_ZeroResidualSweep ==
    [][ /\ (SweepStep /\ ZeroResidual) =>
              /\ Sgndif(Sumdif(sc, s[cur])) = 1
              /\ sc' = sc
              /\ SweepState(sc, s[cur], smin, smax).sumdif = Zero
              /\ FinalSlope(sc') = FinalSlope(sc)
        /\ FinalStep => slope'[cur] = FinalSlope(sc) ]_vars

\* after the first sweep of a cell: the corners are still those the clamp
\* left, their residual is zero, and one of them is further than eps from s
C11_Witness ==
    /\ cur # NoCell /\ ll = 1
    /\ sc = ClampAll(CornersOf(s[cur], slope[cur]), smin, smax)
    /\ ZeroResidual
    /\ \E k \in 1..4 : Active(Diff(sc, s[cur], 1)[k])

AtMostOnce(w) == \A x \in DOMAIN w : w[x] <= 1

(* C12 as stated: write-once.  During one call every element of sint, every *)
(* element of slopes, every element of xedge and every element of yedge is  *)
(* stored at most once.                                                     *)
C12_WriteOnce ==
    /\ AtMostOnce(writes.sint) /\ AtMostOnce(writes.slope)
    /\ AtMostOnce(writes.xedge) /\ AtMostOnce(writes.yedge)

(* C12: every element of sint, of xedge and of yedge is stored at most     *)
(* once during one call; every element of slopes is stored at most twice,   *)
(* both times by the iteration of its own cell: the unlimited slope first   *)
(* (one store while that iteration is in flight) and the final slope when   *)
(* the iteration ends, and never again afterwards.                          *)
C12_SlopesWrittenTwice ==
    /\ AtMostOnce(writes.sint) /\ AtMostOnce(writes.xedge) /\ AtMostOnce(writes.yedge)
    /\ \A c \in DOMAIN slope :
          /\ writes.slope[c] <= 2
          /\ writes.slope[c] = 1 <=> c = cur
          /\ writes.slope[c] = 0 <=> slope[c] = NoVal
    /\ pc = "done" =>
          /\ \A n \in CornerBox : writes.sint[n] = 1
          /\ \A c \in SlopeBox : writes.slope[c] = 2
          /\ \A f \in XFaces(0) : writes.xedge[f] = 1
          /\ \A f \in YFaces(0) : writes.yedge[f] = 1

\* the call has ended and the limiter has changed the slope of a cell it had
\* stored before
C12_Witness ==
    /\ pc = "done"
    /\ \E c \in SlopeBox : writes.slope[c] = 2 /\ slope[c] # UnlimitedSlope(c[1], c[2])

SintProduced == {n \in DOMAIN sint : writes.sint[n] = 1 /\ sint[n] # NoVal}
SlopeProduced == {c \in DOMAIN slope : writes.slope[c] = 2 /\ c # cur}
SlopeStarted == cur # NoCell \/ \E c \in DOMAIN slope : writes.slope[c] > 0
ConcStarted == \E f \in XFaces(0) : writes.xedge[f] > 0
SlopeStageReads == UNION {SlopeSintStencil(c[1], c[2]) : c \in SlopeBox}
ConcStageReads ==
    UNION ({XFaceReads(f[1], f[2]).slope : f \in XFaces(0)}
           \cup {YFaceReads(f[1], f[2]).slope : f \in YFaces(0)})

(* C13: stage ordering and coverage.  Every sint node the slope stage has  *)
(* read had been written by the corner stage, and no slope iteration starts *)
(* before the corner stage has written every node the slope stage reads;    *)
(* every slopes element the edge assembler has read holds its final value,  *)
(* and ComputeConc starts only when every slopes element it reads has had   *)
(* its final store; no element of sint or slopes is read before it is       *)
(* produced.                                                                *)
C13_StagesInOrder ==
    /\ sintReads \subseteq SintProduced
    /\ slopeReads \subseteq SlopeProduced
    /\ (SlopeStarted \/ PastCorners) =>
          /\ CornerRem = {}
          /\ SlopeStageReads \subseteq SintProduced
    /\ (ConcStarted \/ InConc) =>
          /\ SlopeRem = {} /\ cur = NoCell
          /\ ConcStageReads \subseteq SlopeProduced
    /\ pc \in {"entry", "corner", "aborted"} => ~SlopeStarted /\ sintReads = {}
    /\ pc \in {"entry", "corner", "slope", "aborted"} => ~ConcStarted /\ slopeReads = {}

\* the call has ended: the slope stage has read every node of sint, ghost
\* nodes included, and the edge assembler a ghost cell of slopes
C13_Witness ==
    /\ pc = "done"
    /\ sintReads = Nodes(SintNGrow)
    /\ slopeReads \ Cells(0) # {}
    /\ \E c \in slopeReads : slope[c] # UnlimitedSlope(c[1], c[2])

\* the values the slope iteration of cell c goes through, one after the
\* other, each computed from the one before it and from s alone: the
\* unlimited slopes (from sint), the corners of their profile, the clamped
\* corners, the corners each of the sweeps leaves, the final slopes
RECURSIVE SlopeTrail(_, _)
SlopeTrail(c, n) ==
    IF n = 0 THEN <<UnlimitedSlope(c[1], c[2])>>
    ELSE LET trail == SlopeTrail(c, n - 1)
             last == trail[n]
             lo == SminOf(c[1], c[2])
             hi == SmaxOf(c[1], c[2])
         IN  Append(trail,
                    CASE n = 1 -> CornersOf(s[c], last)
                      [] n = 2 -> ClampAll(last, lo, hi)
                      [] n = NSweeps + 3 -> FinalSlope(last)
                      [] OTHER -> Sweep(last, s[c], lo, hi))

\* what the slope iteration of cell c stores last, from s and sint alone
LimitedSlope(c) == SlopeTrail(c, NSweeps + 3)[NSweeps + 4]

\* an iteration has run before one that the host loop runs earlier
OutOfOrder(done, rem) == \E p \in done, q \in rem : LoopBefore(q, p)

\* a stage has just ended, or the call has
StageEnd ==
    \/ pc = "slope" /\ Written(slope) = {}
    \/ pc = "xface" /\ Written(xedge) = {}
    \/ pc = "done"

MirroredDonor(f) == XDonor(f[1], f[2]).iup = MirrorCell(<<prev.xdonor[MirrorXFace(f)], f[2]>>)[1]
MirroredEdge(f) == xedge[f] = prev.xedge[MirrorXFace(f)]

(* C15 as stated: for every face velocity field, the donor cell chosen at  *)
(* the mirrored x-face is the mirror image of the donor chosen at the      *)
(* original face, and xedge at the mirrored face equals xedge at the       *)
(* original face.                                                          *)
C15_MirrorEveryFace ==
    call = "mirrored" =>
        \A f \in Written(xedge) : MirroredDonor(f) /\ MirroredEdge(f)

(* C15: upwind symmetry of the x-face assembler.  With all arguments of    *)
(* ComputeConc reflected in x (u_face negated, sx and sxy negated), at     *)
(* every x-face whose velocity u_face(i,j) is not zero the donor cell is   *)
(* the mirror image of the donor of the original face and xedge equals     *)
(* xedge of the original face; at a face with u_face(i,j) = 0 both calls   *)
(* take the cell on the high side, so the donor is not the mirror image.   *)
C15_MirrorMovingFaces ==
    call = "mirrored" =>
        \A f \in Written(xedge) :
           IF uadv[f] # Zero
           THEN MirroredDonor(f) /\ MirroredEdge(f)
           ELSE ~MirroredDonor(f) /\ XDonor(f[1], f[2]).iup = f[1]

\* the reflected call has ended; it has a face of non-zero velocity whose
\* donor has a slope sx, and a face at rest whose edge state is not that of
\* the face it is the image of; a cell it has read has a slope sxy
C15_Witness ==
    /\ call = "mirrored" /\ pc = "done"
    /\ \E f, h \in XFaces(0) :
          /\ uadv[f] # Zero
          /\ slope[XDonor(f[1], f[2]).iup, f[2]][1] # Zero
          /\ uadv[h] = Zero /\ ~MirroredEdge(h)
    /\ \E c \in slopeReads : slope[c][3] # Zero

Positive(x) == x[1] > 0
\* u2 (v2) of the branch whose transverse velocity is not > 0
ProductRule(a, b) == IF Positive(RMul(a, b)) THEN b ELSE Zero

XTieBreaking(f) ==
    LET i == f[1]
        j == f[2]
        u == uadv[i, j]
        d == XDonor(i, j)
        tp == XPlusTrans(i, j, d.iup)
        tm == XMinusTrans(i, j, d.iup)
    IN  /\ Positive(u) => d = [iup |-> i - 1, isign |-> 1]
        /\ ~Positive(u) => d = [iup |-> i, isign |-> -1]
        /\ Positive(vadv[d.iup, j + 1]) => tp = [jup |-> j, jsign |-> 1, u2 |-> u]
        /\ ~Positive(vadv[d.iup, j + 1]) =>
              tp = [jup |-> j + 1, jsign |-> -1, u2 |-> ProductRule(u, uadv[i, j + 1])]
        /\ Positive(vadv[d.iup, j]) =>
              tm = [jup |-> j - 1, jsign |-> 1, u2 |-> ProductRule(u, uadv[i, j - 1])]
        /\ ~Positive(vadv[d.iup, j]) => tm = [jup |-> j, jsign |-> -1, u2 |-> u]

YTieBreaking(f) ==
    LET i == f[1]
        j == f[2]
        v == vadv[i, j]
        d == YDonor(i, j)
        tp == YPlusTrans(i, j, d.jup)
        tm == YMinusTrans(i, j, d.jup)
    IN  /\ Positive(v) => d = [jup |-> j - 1, jsign |-> 1]
        /\ ~Positive(v) => d = [jup |-> j, jsign |-> -1]
        /\ Positive(uadv[i + 1, d.jup]) => tp = [iup |-> i, isign |-> 1, v2 |-> v]
        /\ ~Positive(uadv[i + 1, d.jup]) =>
              tp = [iup |-> i + 1, isign |-> -1, v2 |-> ProductRule(v, vadv[i + 1, j])]
        /\ Positive(uadv[i, d.jup]) =>
              tm = [iup |-> i - 1, isign |-> 1, v2 |-> ProductRule(v, vadv[i - 1, j])]
        /\ ~Positive(uadv[i, d.jup]) => tm = [iup |-> i, isign |-> -1, v2 |-> v]

(* C16: donor tie-breaking.  Every upwind test of ComputeConc is a strict  *)
(* test > 0.  On an x-face u_face(i,j) > 0 gives iup = i-1, isign = +1 and *)
(* any other value, 0 included, iup = i, isign = -1; on a y-face           *)
(* v_face(i,j) > 0 gives jup = j-1, jsign = +1, otherwise jup = j,         *)
(* jsign = -1.  The transverse tests send 0 to the else branch, and u2     *)
(* (v2) is 0 when the product of the two normal velocities is 0.  The      *)
(* donor row (column) of the face is the one the final assembly reads: the *)
(* cell (iup, j) of s, of slopes and of force has been read once the edge  *)
(* is written.                                                             *)
C16_StrictUpwindTests ==
    /\ \A f \in XFaces(0) : XTieBreaking(f)
    /\ \A f \in YFaces(0) : YTieBreaking(f)
    /\ \A f \in Written(xedge) :
          LET c == <<IF Positive(uadv[f]) THEN f[1] - 1 ELSE f[1], f[2]>>
          IN  c \in sReads.conc /\ c \in slopeReads /\ c \in fReads
    /\ \A f \in Written(yedge) :
          LET c == <<f[1], IF Positive(vadv[f]) THEN f[2] - 1 ELSE f[2]>>
          IN  c \in sReads.conc /\ c \in slopeReads /\ c \in fReads

\* the call has ended with an x-face and a y-face at rest next to faces
\* that move, a transverse velocity of 0 and a product of 0
C16_Witness ==
    /\ pc = "done"
    /\ \E f, g \in XFaces(0) :
          /\ uadv[f] = Zero /\ uadv[g] # Zero
          /\ vadv[f[1], f[2] + 1] = Zero
          /\ XPlusTrans(f[1], f[2], f[1]).u2 = Zero
    /\ \E f, g \in YFaces(0) : vadv[f] = Zero /\ vadv[g] # Zero

(* C17: the y-face assembler is the mirror image of the x-face assembler.  *)
(* With the arguments of ComputeConc transposed (i and j exchanged, u_face *)
(* and v_face exchanged, sx and sy exchanged, hx and hy exchanged, sxy,     *)
(* force and dt kept), the x-face routine writes at face (j,i) the value    *)
(* the y-face routine wrote at face (i,j) for the original arguments, and   *)
(* the y-face routine at (j,i) the value the x-face routine wrote at (i,j). *)
C17_TransposedAssembler ==
    call = "transposed" =>
        /\ \A f \in Written(xedge) : xedge[f] = prev.yedge[Transpose(f)]
        /\ \A f \in Written(yedge) : yedge[f] = prev.xedge[Transpose(f)]

\* the transposed call has ended on a mesh with hx # hy; its x-faces have
\* read a cell with three non-zero slopes and velocities of both signs
C17_Witness ==
    /\ call = "transposed" /\ pc = "done" /\ hx # hy
    /\ \E c \in slopeReads : slope[c][1] # Zero /\ slope[c][2] # Zero /\ slope[c][3] # Zero
    /\ \E f \in XFaces(0) : Positive(uadv[f])
    /\ \E f \in YFaces(0) : ~Positive(vadv[f])
    /\ \E f \in XFaces(0) : xedge[f] # yedge[Transpose(f)]

\* the corners of cell c reconstructed from its unlimited slopes, and
\* whether each lies between its smin and its smax
UnclampedAt(c) == CornersOf(s[c], UnlimitedSlope(c[1], c[2]))
InEnvelopeAt(c) ==
    LET x == UnclampedAt(c)
        lo == SminOf(c[1], c[2])
        hi == SmaxOf(c[1], c[2])
    IN  \A k \in 1..4 : RLe(lo[k], x[k]) /\ RLe(x[k], hi[k])

(* C18: the limiter is the identity on in-envelope data.  For a cell whose *)
(* four corners reconstructed from the unlimited slopes satisfy            *)
(* smin(k) <= sc(k) <= smax(k) for every k, the clamp and each of the      *)
(* three sweeps leave sc(k) as reconstructed, and the final slopes stored   *)
(* equal the unlimited slopes computed from sint (looked at between two     *)
(* iterations of the slope loop and at the end of the call).                *)
C18_IdentityInEnvelope ==
    /\ (cur # NoCell /\ InEnvelopeAt(cur)) =>
          /\ sc = UnclampedAt(cur)
          /\ slope[cur] = UnlimitedSlope(cur[1], cur[2])
    /\ ((pc = "slope" /\ cur = NoCell) \/ pc = "done") =>
          \A c \in SlopeProduced :
             InEnvelopeAt(c) => slope[c] = UnlimitedSlope(c[1], c[2])

\* the slope loop has ended the iteration of a cell of a field that is not
\* linear, whose corners lay in their envelopes apart from s, with a cross
\* slope; another cell had its slopes limited
C18_Witness ==
    /\ pc = "slope" /\ cur = NoCell /\ ~LinearField
    /\ \E c, d \in SlopeProduced :
          /\ InEnvelopeAt(c)
          /\ slope[c][1] # Zero /\ slope[c][3] # Zero
          /\ ~InEnvelopeAt(d)

=============================================================================
